---- MODULE Spec2Model ----
(***************************************************************************)
(* The oracle pipeline of src/next.config.js: fetchPolymarketEvents        *)
(* (paginated fetch with retry and backoff), processPolymarketEvents (the  *)
(* per-record gates) and groupByYear (year buckets).                       *)
(*                                                                         *)
(* Numbers that the code reads with parseFloat are kept in hundredths:     *)
(* the JavaScript number 0.73 is the integer 73, 5000 is 500000. NaN is a  *)
(* value of its own. Every numeral of the inputs has at most two decimals, *)
(* so the representation is exact on them.                                 *)
(***************************************************************************)
EXTENDS Integers, Sequences, FiniteSets, TLC

VARIABLES
    \* ---- fetchPolymarketEvents ----
    maxMarkets,   \* parameter
    retries,      \* parameter
    retryDelay,   \* parameter (ms)
    allMarkets,   \* the accumulator
    offset,       \* the page cursor
    attempt,      \* the for-loop counter
    pc,           \* where the async function is suspended
    waitTime,     \* duration (ms) of the sleep the function is suspended in
    result,       \* the value the promise resolved with
    exit,         \* which return statement ended the call
    reqOffset,    \* offset of the most recently issued request
    prev,         \* the most recently received response
    reqCount,     \* page index -> requests issued for it
    failCount,    \* page index -> attempts answered by 429 or an error
    pushed,       \* the pages appended to the accumulator, as <<offset, length>>
    \* ---- processPolymarketEvents, groupByYear ----
    events,       \* the list of raw records under study
    lastInput,    \* the argument of the latest call of the processor
    procPc,       \* "idle", "returned", "threw" (the latest call), "grouped"
    predictions,  \* the local predictions, as returned
    skipReasons,  \* the local skipReasons at the end of the call
    fate,         \* per record of the latest call, what became of it
    timeline,     \* the value of groupByYear
    firstOut,     \* what the first call on `events` returned
    \* ---- extractYear, categorizeEvent, determineSignal ----
    given,        \* the arguments: title, description, prob (hundredths)
    answer        \* the function called last, and what it returned

fetchVars == <<maxMarkets, retries, retryDelay, allMarkets, offset, attempt, pc,
               waitTime, result, exit, reqOffset, prev, reqCount, failCount, pushed>>

procVars == <<events, lastInput, procPc, predictions, skipReasons, fate, timeline,
              firstOut>>

textVars == <<given, answer>>

vars == <<fetchVars, procVars, textVars>>

(***************************************************************************)
(* Bounds of the model.                                                    *)
(***************************************************************************)
MaxMarkets == 3      \* maxMarkets is drawn from 0..MaxMarkets
MaxRetries == 2      \* retries is drawn from 1..MaxRetries
MaxPageLen == 2      \* a non-empty page carries 1..MaxPageLen records
MaxPage == 3         \* requests are followed up to page index MaxPage
MinYear == 2024      \* the titles built around a year carry MinYear..MaxYear
MaxYear == 2041

(***************************************************************************)
(* Program constants.                                                      *)
(***************************************************************************)
limit == 100             \* per-request limit
pageDelay == 100         \* the pause between pages (ms)
defaultRetryDelay == 1000

Pages == 0..(MaxPage + 1)
MaxOffset == MaxPage * limit

Min(a, b) == IF a < b THEN a ELSE b

RECURSIVE Pow2(_)
Pow2(n) == IF n = 0 THEN 1 ELSE 2 * Pow2(n - 1)

\* Array.prototype.slice(0, n) for n >= 0
Slice(s, n) == SubSeq(s, 1, Min(n, Len(s)))

\* The records the server holds at one offset: record i of page o is <<o, i>>.
Page(o, n) == [i \in 1..n |-> <<o, i>>]

RECURSIVE Flatten(_)
Flatten(ps) ==
    IF ps = <<>> THEN <<>>
    ELSE Page(Head(ps)[1], Head(ps)[2]) \o Flatten(Tail(ps))

NoHeader == "null"    \* Headers.get() of a header the response does not carry
RetryAfterHeaders == {NoHeader, "0", "2"}

NoResponse == [outcome |-> "none", offset |-> 0, attempt |-> 0, header |-> NoHeader]

ErrorOutcomes == {"network", "notOk", "badJson"}

(***************************************************************************)
(* Strings. A JavaScript string is a TLA+ string; Char(s, i) is s[i-1].    *)
(***************************************************************************)
Char(s, i) == SubSeq(s, i, i)
From(s, i) == SubSeq(s, i, Len(s))

Digits == {"0", "1", "2", "3", "4", "5", "6", "7", "8", "9"}
WhiteSpace == {" ", "\t", "\n", "\r"}

DigitVal(c) ==
    CASE c = "0" -> 0 [] c = "1" -> 1 [] c = "2" -> 2 [] c = "3" -> 3
      [] c = "4" -> 4 [] c = "5" -> 5 [] c = "6" -> 6 [] c = "7" -> 7
      [] c = "8" -> 8 [] c = "9" -> 9

\* first index >= i of s that holds no white space (Len(s) + 1 when none)
RECURSIVE SkipSpace(_, _)
SkipSpace(s, i) ==
    IF i <= Len(s) /\ Char(s, i) \in WhiteSpace THEN SkipSpace(s, i + 1) ELSE i

\* first index >= i of s that holds no digit
RECURSIVE SkipDigits(_, _)
SkipDigits(s, i) ==
    IF i <= Len(s) /\ Char(s, i) \in Digits THEN SkipDigits(s, i + 1) ELSE i

\* value of the digit string s[i..j-1], read after the value acc
RECURSIVE DigitsVal(_, _, _, _)
DigitsVal(s, i, j, acc) ==
    IF i >= j THEN acc ELSE DigitsVal(s, i + 1, j, 10 * acc + DigitVal(Char(s, i)))

NaN == [nan |-> TRUE, v |-> 0]
Number(n) == [nan |-> FALSE, v |-> n]

\* 1 or -1, by the sign character at index i
SignAt(s, i) == IF i <= Len(s) /\ Char(s, i) = "-" THEN 0 - 1 ELSE 1

\* the index after the sign character at index i, if there is one
AfterSign(s, i) == IF i <= Len(s) /\ Char(s, i) \in {"-", "+"} THEN i + 1 ELSE i

\* the integer with sign at i and digits s[k..j-1], NaN when there is no digit
SignedInt(s, i, k, j) ==
    IF j = k THEN NaN ELSE Number(SignAt(s, i) * DigitsVal(s, k, j, 0))

ParseIntDigits(s, i, k) == SignedInt(s, i, k, SkipDigits(s, k))

ParseIntAt(s, i) == ParseIntDigits(s, i, AfterSign(s, i))

\* parseInt(s), radix 10: leading white space, a sign, then the longest run of digits
parseInt(s) == ParseIntAt(s, SkipSpace(s, 1))

(***************************************************************************)
(* fetchPolymarketEvents. The function is suspended at one of its awaits   *)
(* (pc); an action is the code that runs from one await to the next.       *)
(***************************************************************************)
RetryDelays == {500, defaultRetryDelay}

FetchInit ==
    /\ maxMarkets \in 0..MaxMarkets
    /\ retries \in 1..MaxRetries
    /\ retryDelay \in RetryDelays
    /\ allMarkets = <<>>
    /\ offset = 0
    /\ attempt = 0
    /\ pc = "call"
    /\ waitTime = 0
    /\ result = <<>>
    /\ exit = "none"
    /\ reqOffset = 0
    /\ prev = NoResponse
    /\ reqCount = [p \in Pages |-> 0]
    /\ failCount = [p \in Pages |-> 0]
    /\ pushed = <<>>

\* one more request, or one more failed attempt, for the page at offset o
Bump(f, o) == [f EXCEPT ![o \div limit] = Min(@ + 1, retries + 1)]

\* (mutant) the offset is not advanced
NextOffset_stays(sat) == offset

\* offset += limit. The offset grows without bound and no condition of the code
\* reads it: with sat the model holds it at MaxOffset, so that the state space
\* stays finite when pages are followed for ever.
NextOffset(sat) ==
    IF sat /\ offset + limit > MaxOffset THEN offset ELSE offset + limit

\* the exponential backoff of this attempt
Backoff == retryDelay * Pow2(attempt)

\* the wait after a 429 that carries the Retry-After header h
RateLimitWait(h) ==
    IF h # NoHeader /\ h # "" THEN parseInt(h).v * 1000 ELSE Backoff

\* a return statement
Return(value, how) ==
    /\ pc' = "returned"
    /\ result' = value
    /\ exit' = how
    /\ waitTime' = 0

\* (mutant) the accumulator returned whole
WhileExitValue_unsliced == allMarkets

\* the value of the return statement after the while loop
WhileExitValue == Slice(allMarkets, maxMarkets)

\* the for statement, entered or re-entered with attempt = a: either the next
\* request is issued, or the loop is left, the offset advances and the
\* inter-page pause starts
ForLoop(a, sat) ==
    /\ attempt' = a
    /\ IF a < retries
       THEN /\ pc' = "fetch"
            /\ reqOffset' = offset
            /\ reqCount' = Bump(reqCount, offset)
            /\ waitTime' = 0
            /\ offset' = offset
       ELSE /\ pc' = "sleepPage"
            /\ waitTime' = pageDelay
            /\ offset' = NextOffset(sat)
            /\ UNCHANGED <<reqOffset, reqCount>>
    /\ UNCHANGED <<result, exit>>

\* the while statement
WhileLoop(sat) ==
    IF Len(allMarkets) < maxMarkets
    THEN ForLoop(0, sat)
    ELSE /\ Return(WhileExitValue, "while")
         /\ UNCHANGED <<attempt, offset, reqOffset, reqCount>>

\* the model follows pages up to MaxPage (no bound when the offset saturates)
InRange(sat) == sat \/ Len(allMarkets) >= maxMarkets \/ offset <= MaxOffset

params == <<maxMarkets, retries, retryDelay>>

\* the call: the first test of the while loop
Call(sat) ==
    /\ pc = "call"
    /\ InRange(sat)
    /\ WhileLoop(sat)
    /\ UNCHANGED <<params, allMarkets, prev, failCount, pushed>>

\* the inter-page pause is over
WakePage(sat) ==
    /\ pc = "sleepPage"
    /\ InRange(sat)
    /\ WhileLoop(sat)
    /\ UNCHANGED <<params, allMarkets, prev, failCount, pushed>>

Response(kind, h) ==
    [outcome |-> kind, offset |-> reqOffset, attempt |-> attempt, header |-> h]

\* the response has status 429
Resp429(h) ==
    /\ pc = "fetch"
    /\ prev' = Response("429", h)
    /\ failCount' = Bump(failCount, reqOffset)
    /\ waitTime' = RateLimitWait(h)
    /\ pc' = "sleep429"
    /\ UNCHANGED <<params, allMarkets, offset, attempt, result, exit, reqOffset,
                   reqCount, pushed>>

\* the wait after a 429 is over: continue
Wake429(sat) ==
    /\ pc = "sleep429"
    /\ ForLoop(attempt + 1, sat)
    /\ UNCHANGED <<params, allMarkets, prev, failCount, pushed>>

\* (mutant) the last failure is thrown to the caller
Catch_rethrow ==
    IF attempt = retries - 1
    THEN /\ pc' = "thrown"
         /\ waitTime' = 0
         /\ UNCHANGED <<result, exit>>
    ELSE /\ pc' = "sleepRetry"
         /\ waitTime' = Backoff
         /\ UNCHANGED <<result, exit>>

\* the catch clause
Catch ==
    IF attempt = retries - 1
    THEN Return(allMarkets, "catch")
    ELSE /\ pc' = "sleepRetry"
         /\ waitTime' = Backoff
         /\ UNCHANGED <<result, exit>>

\* fetch() rejects, the status is not ok, or the body is no JSON array
RespError(kind) ==
    /\ pc = "fetch"
    /\ prev' = Response(kind, NoHeader)
    /\ failCount' = Bump(failCount, reqOffset)
    /\ Catch
    /\ UNCHANGED <<params, allMarkets, offset, attempt, reqOffset, reqCount, pushed>>

\* the wait of the catch clause is over: the for loop goes on
WakeRetry(sat) ==
    /\ pc = "sleepRetry"
    /\ ForLoop(attempt + 1, sat)
    /\ UNCHANGED <<params, allMarkets, prev, failCount, pushed>>

\* (mutant) an empty page taken for a page like another: break, next page
RespEmpty_goesOn ==
    /\ pc = "fetch"
    /\ prev' = Response("empty", NoHeader)
    /\ offset' = NextOffset(FALSE)
    /\ pc' = "sleepPage"
    /\ waitTime' = pageDelay
    /\ UNCHANGED <<params, allMarkets, attempt, result, exit, reqOffset, reqCount,
                   failCount, pushed>>

\* a 2xx response whose body is empty (or null)
RespEmpty ==
    /\ pc = "fetch"
    /\ prev' = Response("empty", NoHeader)
    /\ Return(allMarkets, "empty")
    /\ UNCHANGED <<params, allMarkets, offset, attempt, reqOffset, reqCount,
                   failCount, pushed>>

\* a 2xx response with n records: push, break, offset += limit, pause
RespData(n, sat) ==
    /\ pc = "fetch"
    /\ prev' = Response("data", NoHeader)
    /\ allMarkets' = allMarkets \o Page(offset, n)
    /\ pushed' = Append(pushed, <<offset, n>>)
    /\ offset' = NextOffset(sat)
    /\ pc' = "sleepPage"
    /\ waitTime' = pageDelay
    /\ UNCHANGED <<params, attempt, result, exit, reqOffset, reqCount, failCount>>

FetchNext(sat) ==
    \/ Call(sat)
    \/ WakePage(sat)
    \/ \E h \in RetryAfterHeaders : Resp429(h)
    \/ Wake429(sat)
    \/ \E kind \in ErrorOutcomes : RespError(kind)
    \/ WakeRetry(sat)
    \/ RespEmpty
    \/ \E n \in 1..MaxPageLen : RespData(n, sat)

(***************************************************************************)
(* TextExtractor: extractYear, categorizeEvent, determineSignal,           *)
(* getConfidence. A regular expression matches as the engine matches it:   *)
(* at the leftmost index where the pattern matches.                        *)
(***************************************************************************)
LowerAlphabet == "abcdefghijklmnopqrstuvwxyz"
UpperAlphabet == "ABCDEFGHIJKLMNOPQRSTUVWXYZ"
LowerLetters == {Char(LowerAlphabet, i) : i \in 1..26}
UpperLetters == {Char(UpperAlphabet, i) : i \in 1..26}

LowerChar(c) ==
    IF c \in UpperLetters
    THEN Char(LowerAlphabet, CHOOSE i \in 1..26 : Char(UpperAlphabet, i) = c)
    ELSE c

\* String.prototype.toLowerCase
RECURSIVE toLowerCase(_)
toLowerCase(s) ==
    IF s = "" THEN "" ELSE LowerChar(Char(s, 1)) \o toLowerCase(From(s, 2))

\* String.prototype.includes
includes(text, word) ==
    \E i \in 1..(Len(text) - Len(word) + 1) : SubSeq(text, i, i + Len(word) - 1) = word

\* \w of a regular expression
IsWordChar(c) == c \in Digits \/ c \in LowerLetters \/ c \in UpperLetters \/ c = "_"

Minimum(S) == CHOOSE x \in S : \A y \in S : x <= y

\* (202[5-9]|203[0-9]) matches at index i
YearAt(s, i) ==
    /\ i + 3 <= Len(s)
    /\ \/ SubSeq(s, i, i + 2) = "202" /\ Char(s, i + 3) \in {"5", "6", "7", "8", "9"}
       \/ SubSeq(s, i, i + 2) = "203" /\ Char(s, i + 3) \in Digits

\* \b(202[5-9]|203[0-9])\b matches at index i
BareYearAt(s, i) ==
    /\ YearAt(s, i)
    /\ (i = 1 \/ ~IsWordChar(Char(s, i - 1)))
    /\ (i + 3 = Len(s) \/ ~IsWordChar(Char(s, i + 4)))

\* \s+(202[5-9]|203[0-9]) matches at index d: the index of the year, else 0
SpacesYearAt(ls, d, k) == IF k > d /\ YearAt(ls, k) THEN k ELSE 0

\* \.?\s+(202[5-9]|203[0-9]) matches at index j (the dot only when dot is
\* TRUE): the index of the year, else 0
DotSpacesYearAt(ls, j, dot) ==
    IF dot /\ j <= Len(ls) /\ Char(ls, j) = "."
    THEN SpacesYearAt(ls, j + 1, SkipSpace(ls, j + 1))
    ELSE SpacesYearAt(ls, j, SkipSpace(ls, j))

\* word\.?\s+(202[5-9]|203[0-9]) with flag i matches at index i: the index of
\* the year, else 0. ls is the text in lower case, word is in lower case.
WordYearAt(ls, i, word, dot) ==
    IF i + Len(word) - 1 <= Len(ls) /\ SubSeq(ls, i, i + Len(word) - 1) = word
    THEN DotSpacesYearAt(ls, i + Len(word), dot)
    ELSE 0

MonthNames == {"january", "february", "march", "april", "may", "june", "july",
               "august", "september", "october", "november", "december"}
MonthAbbrevs == {"jan", "feb", "mar", "apr", "may", "jun", "jul", "aug", "sep",
                 "oct", "nov", "dec"}

\* yearPatterns, in the order of the array: the bare year, then the patterns
\* made of alternative words, white space and the year
yearPatterns ==
    << [bare |-> TRUE,  words |-> {},                       dot |-> FALSE],
       [bare |-> FALSE, words |-> {"by"},                   dot |-> FALSE],
       [bare |-> FALSE, words |-> {"in"},                   dot |-> FALSE],
       [bare |-> FALSE, words |-> {"before"},               dot |-> FALSE],
       [bare |-> FALSE, words |-> {"after"},                dot |-> FALSE],
       [bare |-> FALSE, words |-> {"q1", "q2", "q3", "q4"}, dot |-> FALSE],
       [bare |-> FALSE, words |-> MonthNames,               dot |-> FALSE],
       [bare |-> FALSE, words |-> MonthAbbrevs,             dot |-> TRUE] >>

\* the four characters of the year at the least index of ks, "" when ks is empty
YearText(s, ks) == IF ks = {} THEN "" ELSE SubSeq(s, Minimum(ks), Minimum(ks) + 3)

\* the last captured group when pattern pat matches at index i of s, else "".
\* No word of a pattern is a prefix of another, so at most one alternative
\* matches at an index.
CaptureAt(s, ls, i, pat) ==
    IF pat.bare
    THEN YearText(s, IF BareYearAt(s, i) THEN {i} ELSE {})
    ELSE YearText(s, {WordYearAt(ls, i, w, pat.dot) : w \in pat.words} \ {0})

\* the last group of the leftmost match of pat at an index >= i, "" when none
RECURSIVE MatchFrom(_, _, _, _)
CaptureOrNext(s, ls, i, pat, capture) ==
    IF capture # "" THEN capture ELSE MatchFrom(s, ls, i + 1, pat)

MatchFrom(s, ls, i, pat) ==
    IF i > Len(s) THEN "" ELSE CaptureOrNext(s, ls, i, pat, CaptureAt(s, ls, i, pat))

\* text.match(pattern): the last group of the leftmost match, "" for null
match(s, pat) == MatchFrom(s, toLowerCase(s), 1, pat)

\* the null that extractYear returns; the code only tests it for truthiness,
\* and no year is 0
null == 0

\* the loop over yearPatterns, from pattern n on
RECURSIVE YearFrom(_, _)
YearInRange(text, n, year) ==
    IF year >= 2025 /\ year <= 2040 THEN year ELSE YearFrom(text, n + 1)

YearOfMatch(text, n, m) ==
    IF m # "" THEN YearInRange(text, n, parseInt(m).v) ELSE YearFrom(text, n + 1)

YearFrom(text, n) ==
    IF n > Len(yearPatterns) THEN null
    ELSE YearOfMatch(text, n, match(text, yearPatterns[n]))

extractYear(text) == YearFrom(text, 1)

\* the categories, in the order of the object literal
categories ==
    << [name |-> "Equities",
        keywords |-> {"stock", "share", "equity", "s&p", "nasdaq", "dow", "ipo",
                      "apple", "google", "microsoft", "amazon", "tesla", "nvidia",
                      "meta", "tsla", "aapl", "googl", "msft", "amzn", "nvda"}],
       [name |-> "Commodities",
        keywords |-> {"gold", "silver", "oil", "crude", "copper", "platinum",
                      "commodity", "wheat", "corn", "natural gas", "wti", "brent"}],
       [name |-> "Crypto",
        keywords |-> {"bitcoin", "ethereum", "crypto", "btc", "eth", "blockchain",
                      "solana", "cardano", "altcoin", "defi"}],
       [name |-> "Indices",
        keywords |-> {"index", "indices", "s&p 500", "nasdaq 100", "dow jones",
                      "russell", "vix", "market index"}],
       [name |-> "Forex",
        keywords |-> {"dollar", "euro", "yen", "pound", "currency", "forex", "fx",
                      "usd", "eur", "gbp", "jpy", "exchange rate"}],
       [name |-> "Economy",
        keywords |-> {"fed", "interest rate", "inflation", "recession", "gdp",
                      "unemployment", "cpi", "treasury", "bond", "yield"}] >>

\* the loop over the categories, from category n on
RECURSIVE CategoryFrom(_, _)
\* (mutant) a later category that matches is preferred
CategoryOrNext_last(text, n, category) ==
    LET later == CategoryFrom(text, n + 1)
    IN  IF later # "Other" THEN later
        ELSE IF \E keyword \in category.keywords : includes(text, keyword)
        THEN category.name
        ELSE "Other"

CategoryOrNext(text, n, category) ==
    IF \E keyword \in category.keywords : includes(text, keyword)
    THEN category.name
    ELSE CategoryFrom(text, n + 1)

CategoryFrom(text, n) ==
    IF n > Len(categories) THEN "Other" ELSE CategoryOrNext(text, n, categories[n])

categorizeEvent(title, description) ==
    CategoryFrom(toLowerCase(title \o " " \o description), 1)

bearishWords == {"below", "fall", "decline", "drop", "crash", "less than", "under"}
bullishWords == {"above", "rise", "increase", "surge", "rally", "more than", "over",
                 "reach"}

\* (mutant) the thresholds 0.6 and 0.4 included
SignalOf_inclusive(isBearishQuestion, isBullishQuestion, prob) ==
    IF isBearishQuestion /\ prob >= 60 THEN "bearish"
    ELSE IF isBullishQuestion /\ prob >= 60 THEN "bullish"
    ELSE IF isBearishQuestion /\ prob <= 40 THEN "bullish"
    ELSE IF isBullishQuestion /\ prob <= 40 THEN "bearish"
    ELSE "neutral"

\* the four tests of determineSignal; prob is in hundredths (0.6 is 60)
SignalOf(isBearishQuestion, isBullishQuestion, prob) ==
    IF isBearishQuestion /\ prob > 60 THEN "bearish"
    ELSE IF isBullishQuestion /\ prob > 60 THEN "bullish"
    ELSE IF isBearishQuestion /\ prob < 40 THEN "bullish"
    ELSE IF isBullishQuestion /\ prob < 40 THEN "bearish"
    ELSE "neutral"

SignalOfText(text, prob) ==
    SignalOf(\E word \in bearishWords : includes(text, word),
             \E word \in bullishWords : includes(text, word), prob)

determineSignal(question, prob) == SignalOfText(toLowerCase(question), prob)

\* prob is in hundredths
getConfidence(prob) ==
    IF prob >= 75 THEN "fact" ELSE IF prob >= 60 THEN "likely" ELSE "uncertain"

(***************************************************************************)
(* JavaScript values read by processPolymarketEvents.                      *)
(***************************************************************************)
\* the first two fraction digits s[f], s[f+1] of n fraction digits, as hundredths
Hundredths(s, f, n) ==
    IF n = 1 THEN 10 * DigitVal(Char(s, f)) ELSE DigitsVal(s, f, f + Min(n, 2), 0)

\* the number with sign at i, integer digits s[k..j-1] and fracDigits fraction
\* digits after the dot at j; NaN when it has no digit at all
SignedDecimal(s, i, k, j, fracDigits) ==
    IF j = k /\ fracDigits = 0 THEN NaN
    ELSE Number(SignAt(s, i) *
                (100 * DigitsVal(s, k, j, 0) + Hundredths(s, j + 1, fracDigits)))

ParseFloatFraction(s, i, k, j) ==
    SignedDecimal(s, i, k, j,
                  IF j <= Len(s) /\ Char(s, j) = "."
                  THEN SkipDigits(s, j + 1) - (j + 1) ELSE 0)

ParseFloatDigits(s, i, k) == ParseFloatFraction(s, i, k, SkipDigits(s, k))

ParseFloatAt(s, i) == ParseFloatDigits(s, i, AfterSign(s, i))

\* parseFloat(s), in hundredths: leading white space, a sign, digits, and a
\* fraction; NaN when no digit is there
parseFloat(s) == ParseFloatAt(s, SkipSpace(s, 1))

\* a < b for JavaScript numbers, b a whole number: false when a is NaN
LessThan(a, b) == ~a.nan /\ a.v < 100 * b

\* A value that JSON.parse returns, or an element of a literal array: its
\* type t, its text s (a string's characters, a number's or boolean's
\* lexeme) and, for an array, its elements a.
JValue(t, s, a) == [t |-> t, s |-> s, a |-> a]
JNull == JValue("null", "null", <<>>)
JStr(s) == JValue("string", s, <<>>)
JNum(s) == JValue("number", s, <<>>)
JBool(s) == JValue("boolean", s, <<>>)
JArr(a) == JValue("array", "", a)
undefined == JValue("undefined", "undefined", <<>>)
SyntaxError == JValue("SyntaxError", "", <<>>)

\* what a parser returns: the value and the index after it (0: syntax error)
Parsed(val, next) == [val |-> val, next |-> next]
Fail == Parsed(SyntaxError, 0)

StartsWith(s, i, w) == i + Len(w) - 1 <= Len(s) /\ SubSeq(s, i, i + Len(w) - 1) = w

\* index of the quote that closes the string whose characters start at j;
\* 0 when there is none (escapes are outside the grammar modelled)
RECURSIVE StringEnd(_, _)
StringEnd(s, j) ==
    IF j > Len(s) THEN 0
    ELSE IF Char(s, j) = "\"" THEN j
    ELSE IF Char(s, j) = "\\" THEN 0
    ELSE StringEnd(s, j + 1)

\* the string between the quotes at i and j
StringValue(s, i, j) ==
    IF j = 0 THEN Fail ELSE Parsed(JStr(SubSeq(s, i + 1, j - 1)), j + 1)

FractionEnd(j, f) == IF f = j + 1 THEN 0 ELSE f

NumberFraction(s, k, j) ==
    IF j = k \/ (j - k > 1 /\ Char(s, k) = "0") THEN 0
    ELSE IF j <= Len(s) /\ Char(s, j) = "." THEN FractionEnd(j, SkipDigits(s, j + 1))
    ELSE j

NumberDigits(s, k) == NumberFraction(s, k, SkipDigits(s, k))

\* index after the JSON number that starts at i; 0 when there is none
NumberEnd(s, i) == NumberDigits(s, IF Char(s, i) = "-" THEN i + 1 ELSE i)

\* the number s[i..j-1]
NumberValue(s, i, j) == IF j = 0 THEN Fail ELSE Parsed(JNum(SubSeq(s, i, j - 1)), j)

\* a JSON scalar at index i: null, true, false, a string or a number
ParseScalar(s, i) ==
    IF i > Len(s) THEN Fail
    ELSE IF StartsWith(s, i, "null") THEN Parsed(JNull, i + 4)
    ELSE IF StartsWith(s, i, "true") THEN Parsed(JBool("true"), i + 4)
    ELSE IF StartsWith(s, i, "false") THEN Parsed(JBool("false"), i + 5)
    ELSE IF Char(s, i) = "\"" THEN StringValue(s, i, StringEnd(s, i + 1))
    ELSE NumberValue(s, i, NumberEnd(s, i))

\* the elements of an array from index i on, acc being those already read
RECURSIVE ParseElements(_, _, _)
Separator(s, acc, n) ==
    IF n > Len(s) THEN Fail
    ELSE IF Char(s, n) = "," THEN ParseElements(s, n + 1, acc)
    ELSE IF Char(s, n) = "]" THEN Parsed(JArr(acc), n + 1)
    ELSE Fail

AfterElement(s, acc, e) ==
    IF e.next = 0 THEN Fail ELSE Separator(s, Append(acc, e.val), SkipSpace(s, e.next))

ParseElements(s, i, acc) == AfterElement(s, acc, ParseScalar(s, SkipSpace(s, i)))

ParseArrayAt(s, i, n) ==
    IF n <= Len(s) /\ Char(s, n) = "]"
    THEN Parsed(JArr(<<>>), n + 1)
    ELSE ParseElements(s, i + 1, <<>>)

\* the array that opens at index i
ParseArray(s, i) == ParseArrayAt(s, i, SkipSpace(s, i + 1))

\* the value r.val when nothing but white space follows it
Complete(s, r) ==
    IF r.next = 0 \/ SkipSpace(s, r.next) <= Len(s) THEN SyntaxError ELSE r.val

ParseTop(s, i) ==
    Complete(s, IF i <= Len(s) /\ Char(s, i) = "[" THEN ParseArray(s, i)
                ELSE ParseScalar(s, i))

\* JSON.parse(s) for scalars and arrays of scalars (the inputs hold no object
\* and no nested array); SyntaxError stands for the exception
JSONparse(s) == ParseTop(s, SkipSpace(s, 1))

\* a field of type string | string[]: a string (absent is "") or an array
Str(s) == [k |-> "string", s |-> s, a |-> <<>>]
Arr(a) == [k |-> "array", s |-> "", a |-> a]

\* a literal string[] as a value
FromArray(a) == JArr([i \in 1..Len(a) |-> JStr(a[i])])

\* x.length > 0; reading .length of null throws (the caller tests for null)
LengthPositive(x) ==
    CASE x.t = "array" -> Len(x.a) > 0
      [] x.t = "string" -> Len(x.s) > 0
      [] OTHER -> FALSE

\* x[i] with i counted from 1
ElementAt(x, i) ==
    CASE x.t = "array" /\ i <= Len(x.a) -> x.a[i]
      [] x.t = "string" /\ i <= Len(x.s) -> JStr(Char(x.s, i))
      [] OTHER -> undefined

Found(i) == [threw |-> FALSE, index |-> i]
NotAFunction == [threw |-> TRUE, index |-> 0]

\* outcomes.findIndex((o) => o.toLowerCase() === "yes"), from element i on:
\* the index counted from 1 (0 for -1), or the TypeError thrown when
\* findIndex or toLowerCase is no function of the value it is called on
RECURSIVE FindYes(_, _)
FindYes(outcomes, i) ==
    IF outcomes.t # "array" THEN NotAFunction
    ELSE IF i > Len(outcomes.a) THEN Found(0)
    ELSE IF outcomes.a[i].t # "string" THEN NotAFunction
    ELSE IF toLowerCase(outcomes.a[i].s) = "yes" THEN Found(i)
    ELSE FindYes(outcomes, i + 1)

\* `${n}` and n.toString() for n >= 0
RECURSIVE IntToStr(_)
IntToStr(n) ==
    IF n < 10 THEN Char("0123456789", n + 1)
    ELSE IntToStr(n \div 10) \o Char("0123456789", (n % 10) + 1)

(***************************************************************************)
(* processPolymarketEvents and groupByYear.                                *)
(***************************************************************************)
\* the value of outcomes after "Parse outcomes if present"
OutcomesOrEmpty(v) == IF v = SyntaxError THEN JArr(<<>>) ELSE v

ParsedOutcomes(event) ==
    IF event.outcomes.k = "string"
    THEN IF event.outcomes.s = "" THEN JArr(<<>>)
         ELSE OutcomesOrEmpty(JSONparse(event.outcomes.s))
    ELSE FromArray(event.outcomes.a)

\* the value of prices after "Parse outcomePrices"; SyntaxError when
\* JSON.parse threw
ParsedPrices(event) ==
    IF event.outcomePrices.k = "string"
    THEN IF event.outcomePrices.s = "" THEN JArr(<<>>)
         ELSE JSONparse(event.outcomePrices.s)
    ELSE FromArray(event.outcomePrices.a)

TypeError == [threw |-> TRUE, prob |-> NaN]
Prob(n) == [threw |-> FALSE, prob |-> n]

\* (mutant) the first price, whatever the labels
PriceAt_first(prices, yes) ==
    IF yes.threw THEN TypeError ELSE Prob(parseFloat(ElementAt(prices, 1).s))

\* parseFloat(prices[yesIndex !== -1 ? yesIndex : 0])
PriceAt(prices, yes) ==
    IF yes.threw THEN TypeError
    ELSE Prob(parseFloat(ElementAt(prices, IF yes.index # 0 THEN yes.index ELSE 1).s))

\* "Find Yes outcome or default to first price": prob, or the TypeError that
\* leaves the function. Both tests read outcomes.length, and prices.length
\* whenever outcomes is not null; either throws on null.
ResolveProb(outcomes, prices) ==
    IF outcomes.t = "null" \/ prices.t = "null" THEN TypeError
    ELSE IF ~LengthPositive(prices) THEN Prob(Number(0))
    ELSE PriceAt(prices, IF LengthPositive(outcomes) THEN FindYes(outcomes, 1)
                         ELSE Found(0))

\* the volume gate rejects the record
VolumeTooLow(event) ==
    LessThan(parseFloat(IF event.volume # "" THEN event.volume ELSE "0"), 5000)

\* extractYear(event.question) || extractYear(event.description || "")
YearOrDescription(year, event) ==
    IF year # null THEN year ELSE extractYear(event.description)

YearOf(event) == YearOrDescription(extractYear(event.question), event)

\* the object pushed to predictions (ticker and priceTarget, which no gate
\* reads, are left out)
Prediction(event, year, prob, category) ==
    [event      |-> event.question,
     prob       |-> prob,
     category   |-> category,
     confidence |-> getConfidence(prob),
     source     |-> "polymarket",
     timeframe  |-> IntToStr(year),
     signal     |-> determineSignal(event.question, prob)]

NoPrediction ==
    [event |-> "", prob |-> 0, category |-> "", confidence |-> "", source |-> "",
     timeframe |-> "", signal |-> ""]

\* one iteration of the loop over events ends with `continue` after a counter
\* is incremented ("nonFinance" increments noYear), with the prediction
\* pushed ("emit"), or with an exception that leaves the function ("throw")
Skip(reason) == [fate |-> reason, prediction |-> NoPrediction]
Emit(prediction) == [fate |-> "emit", prediction |-> prediction]

\* (mutant) the non-finance filter left out
CategoryGate_open(event, year, prob, category) ==
    Emit(Prediction(event, year, prob, category))

\* "Only include finance-related predictions"
CategoryGate(event, year, prob, category) ==
    IF category = "Other" THEN Skip("nonFinance")
    ELSE Emit(Prediction(event, year, prob, category))

\* isNaN(prob), then prob === 0
ProbGate(event, year, r) ==
    IF r.threw THEN Skip("throw")
    ELSE IF r.prob.nan THEN Skip("invalidProb")
    ELSE IF r.prob.v = 0 THEN Skip("noPrices")
    ELSE CategoryGate(event, year, r.prob.v,
                      categorizeEvent(event.question, event.description))

\* the catch clause of "Parse outcomePrices"
PriceGate(event, year, outcomes, prices) ==
    IF prices = SyntaxError THEN Skip("invalidProb")
    ELSE ProbGate(event, year, ResolveProb(outcomes, prices))

\* if (!year)
YearGate(event, year) ==
    IF year = null THEN Skip("noYear")
    ELSE PriceGate(event, year, ParsedOutcomes(event), ParsedPrices(event))

\* the body of the loop over events
ProcessOne(event) ==
    IF event.question = "" THEN Skip("noTitle")
    ELSE IF VolumeTooLow(event) THEN Skip("lowVolume")
    ELSE YearGate(event, YearOf(event))

Counters == {"noTitle", "lowVolume", "noYear", "noPrices", "invalidProb"}

\* (mutant) a non-finance record counted as noPrices
CounterOf_noPrices(reason) == IF reason = "nonFinance" THEN "noPrices" ELSE reason

CounterOf(reason) == IF reason = "nonFinance" THEN "noYear" ELSE reason

\* (mutant) predictions and skipReasons kept from the call before
Locals_kept == [predictions |-> predictions, skipReasons |-> skipReasons]

\* the locals of a call: predictions = [] and skipReasons all 0
Locals == [predictions |-> <<>>, skipReasons |-> [c \in Counters |-> 0]]

\* the loop over events from index i on; st.fate records, per record
\* handled, what became of it
RECURSIVE ProcessLoop(_, _, _)
Handle(list, i, st, r) ==
    IF r.fate = "throw"
    THEN [st EXCEPT !.threw = TRUE, !.fate = Append(@, "throw")]
    ELSE IF r.fate = "emit"
    THEN ProcessLoop(list, i + 1,
             [st EXCEPT !.predictions = Append(@, r.prediction),
                        !.fate = Append(@, "emit")])
    ELSE ProcessLoop(list, i + 1,
             [st EXCEPT !.skipReasons[CounterOf(r.fate)] = @ + 1,
                        !.fate = Append(@, r.fate)])

ProcessLoop(list, i, st) ==
    IF i > Len(list) THEN st ELSE Handle(list, i, st, ProcessOne(list[i]))

StartOfCall(locals) ==
    [predictions |-> locals.predictions, skipReasons |-> locals.skipReasons,
     fate |-> <<>>, threw |-> FALSE]

\* a whole call of processPolymarketEvents
RunProcess(list) == ProcessLoop(list, 1, StartOfCall(Locals))

\* timeline[yearKey].push(prediction), the bucket created when missing
Push(tl, key, prediction) ==
    IF key \in DOMAIN tl
    THEN [tl EXCEPT ![key] = Append(@, prediction)]
    ELSE [k \in DOMAIN tl \cup {key} |-> IF k = key THEN <<prediction>> ELSE tl[k]]

\* the first loop of groupByYear, from prediction i on
RECURSIVE GroupLoop(_, _, _)
GroupOne(preds, i, tl, year) ==
    IF year = null THEN GroupLoop(preds, i + 1, tl)
    ELSE GroupLoop(preds, i + 1, Push(tl, IntToStr(year), preds[i]))

GroupLoop(preds, i, tl) ==
    IF i > Len(preds) THEN tl ELSE GroupOne(preds, i, tl, extractYear(preds[i].event))

\* p inserted after every element whose prob is not smaller
RECURSIVE Insert(_, _)
RECURSIVE Insert_unstable(_, _)
\* (mutant) p inserted before the elements of equal prob
Insert_unstable(sorted, p) ==
    IF sorted = <<>> THEN <<p>>
    ELSE IF Head(sorted).prob > p.prob
    THEN <<Head(sorted)>> \o Insert_unstable(Tail(sorted), p)
    ELSE <<p>> \o sorted

Insert(sorted, p) ==
    IF sorted = <<>> THEN <<p>>
    ELSE IF Head(sorted).prob >= p.prob THEN <<Head(sorted)>> \o Insert(Tail(sorted), p)
    ELSE <<p>> \o sorted

\* bucket.sort((a, b) => b.prob - a.prob): Array.prototype.sort is stable
RECURSIVE SortDesc(_)
SortDesc(bucket) ==
    IF bucket = <<>> THEN <<>>
    ELSE Insert(SortDesc(SubSeq(bucket, 1, Len(bucket) - 1)), bucket[Len(bucket)])

EmptyTimeline == [k \in {} |-> <<>>]

SortBuckets(tl) == [k \in DOMAIN tl |-> SortDesc(tl[k])]

groupByYear(preds) == SortBuckets(GroupLoop(preds, 1, EmptyTimeline))

(***************************************************************************)
(* The raw records the processor is run on.                                *)
(***************************************************************************)
BaseRecord ==
    [question      |-> "Bitcoin above 90k by 2026",
     description   |-> "",
     volume        |-> "5000",
     outcomes      |-> Arr(<<"Yes", "No">>),
     outcomePrices |-> Arr(<<"0.73", "0.27">>)]

Volumes == {"", "4999", "5000", "abc"}

\* <<question, description>>
Texts == {<<"", "">>,
          <<"Will gold fall?", "">>,
          <<"Will gold fall?", "Resolves in 2027">>,
          <<"Election 2028", "">>,
          <<"Gold above 3k by 2026", "">>}

\* <<outcomes, outcomePrices>>
OutcomeFields ==
    {<<Arr(<<"No", "YES">>), Arr(<<"0.27", "0.6">>)>>,
     <<Str("[\"No\",\"YES\"]"), Str("[\"0.27\",\"0.6\"]")>>,
     <<Str(""), Arr(<<"0.4">>)>>,
     <<Str("oops"), Arr(<<"0.4">>)>>,
     <<Arr(<<"Up", "Down">>), Arr(<<"0.73", "0.27">>)>>,
     <<Str(""), Str("[0.5")>>,
     <<Arr(<<"Yes", "No">>), Arr(<<"abc", "0.5">>)>>,
     <<Arr(<<"Yes", "No">>), Arr(<<"0", "1">>)>>,
     <<Arr(<<"Yes", "No">>), Arr(<<"1.5", "0.27">>)>>,
     <<Arr(<<"Yes", "No">>), Str("null")>>}

RawRecords ==
    {[BaseRecord EXCEPT !.volume = v] : v \in Volumes}
    \cup {[BaseRecord EXCEPT !.question = t[1], !.description = t[2]] : t \in Texts}
    \cup {[BaseRecord EXCEPT !.outcomes = f[1], !.outcomePrices = f[2]] :
             f \in OutcomeFields}

MaxEvents == 2     \* the list under study holds at most MaxEvents records

Lists(n) == UNION {[1..m -> RawRecords] : m \in 0..n}

\* the lists of the calls made between two calls on the list under study
OtherLists == {<<BaseRecord, [BaseRecord EXCEPT !.volume = "4999"]>>}

\* history of the calls on the list under study: the output of the first one
\* (val, once set), whether a call on another list followed it (others) and
\* whether a later call on the list under study returned (again)
NotYet == [set |-> FALSE, val |-> <<>>, others |-> FALSE, again |-> FALSE]

History(list, st) ==
    IF list # events THEN [firstOut EXCEPT !.others = firstOut.set]
    ELSE IF st.threw THEN firstOut
    ELSE IF ~firstOut.set THEN [firstOut EXCEPT !.set = TRUE, !.val = st.predictions]
    ELSE [firstOut EXCEPT !.again = TRUE]

ProcInit ==
    /\ events \in Lists(MaxEvents)
    /\ lastInput = <<>>
    /\ procPc = "idle"
    /\ predictions = <<>>
    /\ skipReasons = [c \in Counters |-> 0]
    /\ fate = <<>>
    /\ timeline = EmptyTimeline
    /\ firstOut = NotYet

\* the call is over: it threw, or it returned st.predictions
EndOfCall(list, st) ==
    /\ lastInput' = list
    /\ fate' = st.fate
    /\ timeline' = EmptyTimeline
    /\ procPc' = IF st.threw THEN "threw" ELSE "returned"
    /\ predictions' = IF st.threw THEN <<>> ELSE st.predictions
    /\ skipReasons' = st.skipReasons
    /\ firstOut' = History(list, st)
    /\ UNCHANGED events

\* processPolymarketEvents(list): the whole call
Process(list) == EndOfCall(list, RunProcess(list))

\* the processor is called on the list under study
ProcessEvents == Process(events)

\* the processor is called on another list
ProcessOther == \E list \in OtherLists : Process(list)

\* groupByYear(predictions), as getFutureTimeline calls it
Group ==
    /\ procPc = "returned"
    /\ timeline' = groupByYear(predictions)
    /\ procPc' = "grouped"
    /\ UNCHANGED <<events, lastInput, predictions, skipReasons, fate, firstOut>>

ProcNext == ProcessEvents \/ ProcessOther \/ Group

\* the processor before any call, as the fetch specifications leave it
ProcIdle ==
    /\ events = <<>>
    /\ lastInput = <<>>
    /\ procPc = "idle"
    /\ predictions = <<>>
    /\ skipReasons = [c \in Counters |-> 0]
    /\ fate = <<>>
    /\ timeline = EmptyTimeline
    /\ firstOut = NotYet

\* the fetcher before any call, with its default parameters
FetchIdle ==
    /\ FetchInit
    /\ maxMarkets = 0
    /\ retries = 1
    /\ retryDelay = defaultRetryDelay

(***************************************************************************)
(* The calls of extractYear, categorizeEvent and determineSignal.          *)
(***************************************************************************)
\* a title is prefix, word, year, suffix; parts keeps how it was built
NoParts == [prefix |-> "", word |-> "", year |-> 0, suffix |-> ""]

Arguments(title, description, prob, parts) ==
    [title |-> title, description |-> description, prob |-> prob, parts |-> parts]

YearPrefixes == {"", "2026 or ", "Gold "}
YearWords == {"", "by ", "in ", "before ", "after ", "Q1 ", "Q4 ", "January ",
              "Dec. ", "BY  "}
YearSuffixes == {"", " or 2030", "?"}

YearInputs ==
    {Arguments(p \o w \o IntToStr(y) \o x, "", 50,
               [prefix |-> p, word |-> w, year |-> y, suffix |-> x]) :
        p \in YearPrefixes, w \in YearWords, y \in MinYear..MaxYear,
        x \in YearSuffixes}

Titles == {"", "Bitcoin and Gold", "Bitcoin above 90k by 2026", "Will gold fall?",
           "Election 2028", "whether", "Tesla stock", "NASDAQ 100",
           "Dollar vs Euro", "Fed rate", "Market index"}
Descriptions == {"", "Resolves in 2027", "gold price", "Apple"}

CategoryInputs ==
    {Arguments(t, d, 50, NoParts) : t \in Titles, d \in Descriptions}

Questions == {"Will BTC fall below $50k", "Will BTC rise above $50k",
              "Election 2028", "Will BTC fall below 50k or rise above 90k",
              "Will gold recover?", "RALLY"}
Probs == {0, 20, 39, 40, 50, 60, 61, 80, 100}

SignalInputs == {Arguments(q, "", pr, NoParts) : q \in Questions, pr \in Probs}

TextInputs == YearInputs \cup CategoryInputs \cup SignalInputs

NoAnswer == [fn |-> "none", year |-> null, name |-> ""]

TextInit ==
    /\ given \in TextInputs
    /\ answer = NoAnswer

\* extractYear(title)
ExtractYear ==
    /\ answer' = [fn |-> "extractYear", year |-> extractYear(given.title), name |-> ""]
    /\ UNCHANGED given

\* categorizeEvent(title, description)
CategorizeEvent ==
    /\ answer' = [fn |-> "categorizeEvent", year |-> null,
                  name |-> categorizeEvent(given.title, given.description)]
    /\ UNCHANGED given

\* determineSignal(title, prob)
DetermineSignal ==
    /\ answer' = [fn |-> "determineSignal", year |-> null,
                  name |-> determineSignal(given.title, given.prob)]
    /\ UNCHANGED given

TextNext == ExtractYear \/ CategorizeEvent \/ DetermineSignal

\* the three functions before any call
TextIdle ==
    /\ given = Arguments("", "", 0, NoParts)
    /\ answer = NoAnswer

(***************************************************************************)
(* Specifications.                                                         *)
(***************************************************************************)
Init == FetchInit /\ ProcIdle /\ TextIdle

\* fetchPolymarketEvents, pages followed up to MaxPage
Next == FetchNext(FALSE) /\ UNCHANGED <<procVars, textVars>>

Spec == Init /\ [][Next]_vars

\* fetchPolymarketEvents with the offset held at MaxOffset
LiveNext == FetchNext(TRUE) /\ UNCHANGED <<procVars, textVars>>

\* every request and every sleep completes
LiveSpec == Init /\ [][LiveNext]_vars /\ WF_vars(LiveNext)

ProcStart == FetchIdle /\ ProcInit /\ TextIdle

ProcStep == ProcNext /\ UNCHANGED <<fetchVars, textVars>>

\* processPolymarketEvents and groupByYear on bounded lists of raw records
ProcSpec == ProcStart /\ [][ProcStep]_vars

TextStart == FetchIdle /\ ProcIdle /\ TextInit

TextStep == TextNext /\ UNCHANGED <<fetchVars, procVars>>

\* extractYear, categorizeEvent and determineSignal on bounded arguments
TextSpec == TextStart /\ [][TextStep]_vars

(***************************************************************************)
(* Claims about fetchPolymarketEvents.                                     *)
(***************************************************************************)
\* the records of the pages appended so far
Accumulated == Flatten(pushed)

\* C1: fetch never throws, and when the last allowed attempt for a page fails
\* with a non-429 error (network exception, non-2xx status, unparseable body)
\* the call returns at once, and returns exactly the records accumulated from
\* the earlier pages.
C1_NeverThrows ==
    /\ pc # "thrown"
    /\ (prev.outcome \in ErrorOutcomes /\ prev.attempt = retries - 1)
          => (pc = "returned" /\ exit = "catch" /\ result = Accumulated)
    /\ (pc = "returned" /\ exit = "catch")
          => (prev.outcome \in ErrorOutcomes /\ result = Accumulated)

\* a page was appended, then the last attempt for the next page failed
C1_Witness ==
    /\ pc = "returned"
    /\ exit = "catch"
    /\ prev.outcome = "badJson"
    /\ prev.offset = limit
    /\ Len(result) = 2

\* C2: once all `retries` attempts for one page have failed (429, non-2xx or
\* network error), no request for a later offset is ever issued, and fetch
\* returns the records accumulated so far.
C2_ExhaustionAbandons ==
    \A p \in Pages :
        failCount[p] >= retries =>
            /\ \A q \in Pages : q > p => reqCount[q] = 0
            /\ pc = "returned" => result = Accumulated

\* C3: fetch always terminates, whatever the server answers, provided every
\* request and every sleep completes.
C3_Terminates == <>(pc = "returned")

\* the wait the claim prescribes after the 429 response r
C4_PrescribedWait(r) ==
    IF r.header # NoHeader
    THEN parseInt(r.header).v * 1000
    ELSE retryDelay * Pow2(r.attempt)

\* C4: after a 429 for offset o the fetcher sleeps (Retry-After seconds x 1000,
\* else retryDelay * 2^attempt), the next request is again for offset o, and
\* the offset does not advance as the consequence of the 429.
C4_RetrySameOffset ==
    prev.outcome = "429" =>
        /\ pc = "sleep429" => waitTime = C4_PrescribedWait(prev)
        /\ pc = "fetch" => reqOffset = prev.offset
        /\ offset = prev.offset

\* C5: every return path yields at most maxMarkets records, and an accumulator
\* that overshot maxMarkets is cut to its first maxMarkets records.
C5_AtMostMax ==
    pc = "returned" =>
        /\ Len(result) <= maxMarkets
        /\ Len(allMarkets) > maxMarkets => result = SubSeq(allMarkets, 1, maxMarkets)

\* the last page overshot maxMarkets
C5_Witness ==
    /\ pc = "returned"
    /\ exit = "while"
    /\ maxMarkets = 3
    /\ Len(allMarkets) = 4
    /\ Len(result) = 3

(***************************************************************************)
(* Claims about processPolymarketEvents and groupByYear.                   *)
(***************************************************************************)
\* the call on lastInput returned its predictions
Returned == procPc \in {"returned", "grouped"}

\* the index in predictions of the prediction emitted for record i
EmitRank(i) == Cardinality({j \in 1..i : fate[j] = "emit"})

\* the number of predictions over the buckets keys of the timeline tl
RECURSIVE BucketTotal(_, _)
BucketTotal(tl, keys) ==
    IF keys = {} THEN 0
    ELSE LET k == CHOOSE key \in keys : TRUE
         IN  Len(tl[k]) + BucketTotal(tl, keys \ {k})

\* C6: no event is lost at the grouping stage: every prediction the processor
\* emitted is in exactly one year bucket, so the buckets hold as many
\* predictions as the processor emitted.
C6_NoEventLost ==
    procPc = "grouped" =>
        /\ BucketTotal(timeline, DOMAIN timeline) = Len(predictions)
        /\ \A i \in 1..Len(predictions) :
               Cardinality({k \in DOMAIN timeline :
                               \E j \in 1..Len(timeline[k]) :
                                   timeline[k][j] = predictions[i]}) = 1

\* a record whose year is in its description only was emitted, and the
\* timeline grouped from the output is empty
C6_Lost ==
    /\ procPc = "grouped"
    /\ Len(lastInput) = 1
    /\ lastInput[1].question = "Will gold fall?"
    /\ lastInput[1].description = "Resolves in 2027"
    /\ Len(predictions) = 1
    /\ predictions[1].timeframe = "2027"
    /\ timeline = EmptyTimeline

\* the volume of the claim, in hundredths: the parsed volume, 0 when the
\* string is absent or unparseable
C7_VolumeOrZero(n) == IF n.nan THEN 0 ELSE n.v

\* C7: the volume gate rejects a record exactly when its volume, an absent or
\* unparseable volume counted as 0, is below 5000; a rejected record is
\* counted as lowVolume and never emitted.
C7_VolumeGate ==
    \A i \in 1..Len(fate) :
        lastInput[i].question # "" =>
            (fate[i] = "lowVolume"
                <=> C7_VolumeOrZero(parseFloat(lastInput[i].volume)) < 100 * 5000)

\* a record whose volume is not a number was emitted
C7_NonNumericEmitted ==
    /\ procPc = "returned"
    /\ Len(lastInput) = 1
    /\ lastInput[1].volume = "abc"
    /\ fate = <<"emit">>
    /\ Len(predictions) = 1
    /\ skipReasons["lowVolume"] = 0

\* JSON.stringify of an array of strings free of quotes and backslashes
RECURSIVE C8_Elements(_, _)
C8_Elements(a, i) ==
    IF i > Len(a) THEN ""
    ELSE (IF i > 1 THEN "," ELSE "") \o "\"" \o a[i] \o "\"" \o C8_Elements(a, i + 1)

C8_Stringify(a) == "[" \o C8_Elements(a, 1) \o "]"

\* the labels and the prices of the claim: the elements of a literal array or
\* of the array a JSON string encodes, none when the field is absent or does
\* not parse
C8_Items(field) ==
    IF field.k = "array" THEN field.a
    ELSE IF field.s = "" THEN <<>>
    ELSE LET v == JSONparse(field.s)
         IN  IF v.t = "array" THEN [i \in 1..Len(v.a) |-> v.a[i].s] ELSE <<>>

\* the index of the first label equal to "yes" ignoring case, else the first
C8_YesIndex(labels) ==
    LET yes == {i \in 1..Len(labels) : toLowerCase(labels[i]) = "yes"}
    IN  IF yes = {} THEN 1 ELSE CHOOSE i \in yes : \A j \in yes : i <= j

\* the prob of the claim, in hundredths
C8_Expected(labels, prices) == parseFloat(prices[C8_YesIndex(labels)]).v

\* the record with its array fields JSON-encoded
C8_Encoded(event) ==
    [event EXCEPT !.outcomes = Str(C8_Stringify(event.outcomes.a)),
                  !.outcomePrices = Str(C8_Stringify(event.outcomePrices.a))]

\* C8: the prob of every emitted record is the price at the first label equal
\* to "yes" ignoring case, the first price when there is none or when the
\* labels are absent, empty or unparseable; a record with JSON-encoded labels
\* and prices gets the prob of the record with the same data as arrays.
C8_ProbResolution ==
    Returned =>
        \A i \in 1..Len(fate) :
            fate[i] = "emit" =>
                /\ predictions[EmitRank(i)].prob =
                       C8_Expected(C8_Items(lastInput[i].outcomes),
                                   C8_Items(lastInput[i].outcomePrices))
                /\ \A j \in 1..Len(fate) :
                       (/\ lastInput[i].outcomes.k = "array"
                        /\ lastInput[i].outcomePrices.k = "array"
                        /\ lastInput[j] = C8_Encoded(lastInput[i]))
                           => /\ fate[j] = "emit"
                              /\ predictions[EmitRank(j)].prob =
                                     predictions[EmitRank(i)].prob

\* labels <<"No", "YES">> with prices <<"0.27", "0.6">>, once as arrays and
\* once JSON-encoded, both resolved to 0.6
C8_Witness ==
    /\ procPc = "returned"
    /\ Len(lastInput) = 2
    /\ lastInput[1].outcomes = Arr(<<"No", "YES">>)
    /\ lastInput[2] = C8_Encoded(lastInput[1])
    /\ fate = <<"emit", "emit">>
    /\ predictions[1].prob = 60
    /\ predictions[2].prob = 60

\* the record reaches the price parsing and its outcomePrices is a string
\* that is not valid JSON
C9_Unparseable(i) ==
    /\ fate[i] \notin {"noTitle", "lowVolume", "noYear"}
    /\ lastInput[i].outcomePrices.k = "string"
    /\ lastInput[i].outcomePrices.s # ""
    /\ JSONparse(lastInput[i].outcomePrices.s) = SyntaxError

\* C9: a malformed field in one record never aborts the call: the call
\* returns, and a record whose outcomePrices is not valid JSON is dropped and
\* counted under invalidProb.
C9_MalformedIsLocal ==
    /\ procPc # "threw"
    /\ \A i \in 1..Len(fate) : C9_Unparseable(i) => fate[i] = "invalidProb"

\* the call threw on a record whose outcomePrices is the JSON text null, after
\* a record it had emitted
C9_Aborted ==
    /\ procPc = "threw"
    /\ Len(lastInput) = 2
    /\ lastInput[2].outcomePrices = Str("null")
    /\ fate = <<"emit", "throw">>
    /\ predictions = <<>>

\* C10: a call on the list under study returns what the first call on it
\* returned, whatever calls were made in between, and the counters of a call
\* count the records of that call only.
C10_NoHiddenState ==
    /\ (Returned /\ lastInput = events /\ firstOut.set) => predictions = firstOut.val
    /\ \A c \in Counters :
           skipReasons[c] =
               Cardinality({i \in 1..Len(fate) : CounterOf(fate[i]) = c})

\* the list under study was processed, then another list, then the list under
\* study again
C10_Witness ==
    /\ procPc = "returned"
    /\ lastInput = events
    /\ firstOut.again
    /\ firstOut.others
    /\ Len(events) = 2
    /\ Len(predictions) = 1
    /\ skipReasons["lowVolume"] = 1

\* the elements of seq whose prob is p, in the order of seq
C11_Ties(seq, p) == SelectSeq(seq, LAMBDA x : x.prob = p)

\* the elements of seq that are in the bucket, in the order of seq
C11_InBucket(seq, bucket) ==
    SelectSeq(seq, LAMBDA x : \E i \in 1..Len(bucket) : bucket[i] = x)

\* C11: every year bucket of the timeline is ordered by non-increasing prob,
\* and the events of one bucket with equal prob keep the relative order they
\* have in the input of groupByYear.
C11_SortedStable ==
    procPc = "grouped" =>
        \A k \in DOMAIN timeline :
            /\ \A i, j \in 1..Len(timeline[k]) :
                   i < j => timeline[k][i].prob >= timeline[k][j].prob
            /\ \A i \in 1..Len(timeline[k]) :
                   C11_Ties(timeline[k], timeline[k][i].prob) =
                       C11_Ties(C11_InBucket(predictions, timeline[k]),
                                timeline[k][i].prob)

\* two different events of 2026 with the same prob, grouped in input order
C11_Witness ==
    /\ procPc = "grouped"
    /\ Len(predictions) = 2
    /\ predictions[1].event = "Gold above 3k by 2026"
    /\ predictions[2].event = "Bitcoin above 90k by 2026"
    /\ predictions[1].prob = predictions[2].prob
    /\ DOMAIN timeline = {"2026"}
    /\ timeline["2026"] = predictions

\* C12: every emitted prediction has a prob within 0.0 to 1.0 (0 to 100
\* hundredths), and none has prob exactly 0.
C12_ProbInRange ==
    \A i \in 1..Len(predictions) :
        predictions[i].prob > 0 /\ predictions[i].prob <= 100

\* the record whose "Yes" price is "1.5" was emitted with prob 1.5
C12_OutOfRange ==
    /\ procPc = "returned"
    /\ Len(lastInput) = 1
    /\ lastInput[1].outcomePrices = Arr(<<"1.5", "0.27">>)
    /\ fate = <<"emit">>
    /\ predictions[1].prob = 150

(***************************************************************************)
(* Claims about extractYear, categorizeEvent and determineSignal.          *)
(***************************************************************************)
\* C13: extractYear returns 2027 for every text that contains "by 2027",
\* whatever else the text contains.
C13_By2027 ==
    (answer.fn = "extractYear" /\ includes(given.title, "by 2027"))
        => answer.year = 2027

\* the text names 2026 before "by 2027", and extractYear returned 2026
C13_EarlierYearWins ==
    /\ answer.fn = "extractYear"
    /\ given.title = "2026 or by 2027"
    /\ answer.year = 2026

\* the title holds no number but the year it was built around
C14_OnlyNumber ==
    /\ given.parts.year # 0
    /\ given.parts.prefix \in {"", "Gold "}
    /\ given.parts.suffix \in {"", "?"}

\* C14: extractYear accepts exactly the years 2025 to 2040: a text whose only
\* number is such a year (bare or after one of the words of the patterns)
\* yields it, and a text whose only number is another year yields null.
C14_AcceptedYears ==
    (answer.fn = "extractYear" /\ C14_OnlyNumber) =>
        answer.year = IF given.parts.year >= 2025 /\ given.parts.year <= 2040
                      THEN given.parts.year
                      ELSE null

\* extractYear returned null for a text whose only number is 2040
C14_Rejects2040 ==
    /\ answer.fn = "extractYear"
    /\ given.title = "by 2040"
    /\ answer.year = null

\* the categories in the order of the claim
C15_Order == <<"Equities", "Commodities", "Crypto", "Indices", "Forex", "Economy">>

\* the keywords of the category called name
C15_Keywords(name) ==
    (CHOOSE c \in {categories[n] : n \in 1..Len(categories)} : c.name = name).keywords

\* the places in C15_Order of the categories with a keyword in the text
C15_Hits(text) ==
    {n \in 1..Len(C15_Order) :
        \E keyword \in C15_Keywords(C15_Order[n]) : includes(text, keyword)}

C15_First(hits) == IF hits = {} THEN "Other" ELSE C15_Order[Minimum(hits)]

\* C15: categorizeEvent returns the first category, in the order Equities,
\* Commodities, Crypto, Indices, Forex, Economy, with a keyword that is a
\* substring of the lower-cased "title description", and "Other" exactly when
\* there is none.
C15_FirstCategory ==
    answer.fn = "categorizeEvent" =>
        answer.name =
            C15_First(C15_Hits(toLowerCase(given.title \o " " \o given.description)))

\* a text with "bitcoin" and "gold" and no Equities keyword is Commodities
C15_Witness ==
    /\ answer.fn = "categorizeEvent"
    /\ given.title = "Bitcoin and Gold"
    /\ given.description = ""
    /\ answer.name = "Commodities"

\* the question is bearish-phrased, bullish-phrased
C16_Bearish(q) == \E word \in bearishWords : includes(toLowerCase(q), word)
C16_Bullish(q) == \E word \in bullishWords : includes(toLowerCase(q), word)

\* C16 as stated: each of the four rules holds of every question and prob,
\* and the signal is neutral in every other case.
C16_EveryRule ==
    answer.fn = "determineSignal" =>
        LET bear == C16_Bearish(given.title)
            bull == C16_Bullish(given.title)
            high == given.prob > 60
            low  == given.prob < 40
        IN  /\ (bear /\ high) => answer.name = "bearish"
            /\ (bull /\ high) => answer.name = "bullish"
            /\ (bear /\ low) => answer.name = "bullish"
            /\ (bull /\ low) => answer.name = "bearish"
            /\ ~((bear \/ bull) /\ (high \/ low)) => answer.name = "neutral"

\* C16, amended: the bearish phrasing is tested first, so the two rules of a
\* bullish-phrased question hold of the questions that are not also
\* bearish-phrased; the signal is neutral in every other case, in particular
\* for every prob in [0.4, 0.6] and for every question with no phrasing match.
C16_BearishFirst ==
    answer.fn = "determineSignal" =>
        LET bear == C16_Bearish(given.title)
            bull == C16_Bullish(given.title)
            high == given.prob > 60
            low  == given.prob < 40
        IN  /\ (bear /\ high) => answer.name = "bearish"
            /\ (bull /\ ~bear /\ high) => answer.name = "bullish"
            /\ (bear /\ low) => answer.name = "bullish"
            /\ (bull /\ ~bear /\ low) => answer.name = "bearish"
            /\ ~((bear \/ bull) /\ (high \/ low)) => answer.name = "neutral"

\* a question phrased both ways, with prob 0.8, is bearish
C16_Witness ==
    /\ answer.fn = "determineSignal"
    /\ given.title = "Will BTC fall below 50k or rise above 90k"
    /\ given.prob = 80
    /\ answer.name = "bearish"

(***************************************************************************)
(* More claims about fetchPolymarketEvents.                                *)
(***************************************************************************)
\* C17: a successful response with zero records ends the fetch at once: the
\* call has returned exactly the records accumulated before it, and no
\* request and no sleep follows it.
C17_EmptyEndsFetch ==
    /\ [](prev.outcome = "empty" =>
             /\ pc = "returned"
             /\ exit = "empty"
             /\ waitTime = 0
             /\ result = Accumulated)
    /\ [][prev.outcome # "empty"]_vars

\* one page of two records, then an empty page: two records returned although
\* maxMarkets is 3
C17_Witness ==
    /\ prev.outcome = "empty"
    /\ prev.offset = limit
    /\ pc = "returned"
    /\ maxMarkets = 3
    /\ Len(result) = 2

(***************************************************************************)
(* More claims about processPolymarketEvents.                              *)
(***************************************************************************)
\* C18: the output is an order-preserving subsequence of the input: the
\* emitted events are the verbatim questions of distinct input records, in
\* the order of the input, and no emitted event has category "Other".
C18_Subsequence ==
    Returned =>
        /\ \E f \in [1..Len(predictions) -> 1..Len(lastInput)] :
               /\ \A i, j \in 1..Len(predictions) : i < j => f[i] < f[j]
               /\ \A i \in 1..Len(predictions) :
                      predictions[i].event = lastInput[f[i]].question
        /\ \A i \in 1..Len(predictions) : predictions[i].category # "Other"

\* a non-finance record, then a record that was emitted
C18_Witness ==
    /\ procPc = "returned"
    /\ Len(lastInput) = 2
    /\ lastInput[1].question = "Election 2028"
    /\ fate = <<"nonFinance", "emit">>
    /\ Len(predictions) = 1
    /\ predictions[1].event = lastInput[2].question

\* the counter of the first gate the record fails, in the order of the claim:
\* question absent, volume, year, price parse and non-numeric price, zero
\* probability, non-finance (counted as noYear); "emit" when it fails none
C19_LastGates(event, r) ==
    IF r.threw THEN "throw"
    ELSE IF r.prob.nan THEN "invalidProb"
    ELSE IF r.prob.v = 0 THEN "noPrices"
    ELSE IF categorizeEvent(event.question, event.description) = "Other" THEN "noYear"
    ELSE "emit"

C19_PriceGates(event, prices) ==
    IF prices = SyntaxError THEN "invalidProb"
    ELSE C19_LastGates(event, ResolveProb(ParsedOutcomes(event), prices))

C19_Gate(event) ==
    IF event.question = "" THEN "noTitle"
    ELSE IF VolumeTooLow(event) THEN "lowVolume"
    ELSE IF YearOf(event) = null THEN "noYear"
    ELSE C19_PriceGates(event, ParsedPrices(event))

C19_Count(gates, c) == Cardinality({i \in DOMAIN gates : gates[i] = c})

C19_Balance(gates) ==
    /\ \A c \in Counters : skipReasons[c] = C19_Count(gates, c)
    /\ Len(predictions) = C19_Count(gates, "emit")
    /\ skipReasons["noTitle"] + skipReasons["lowVolume"] + skipReasons["noYear"]
         + skipReasons["noPrices"] + skipReasons["invalidProb"] + Len(predictions)
         = Len(lastInput)

\* C19: after a call that returned, every input record was emitted or counted
\* under exactly one counter, that of the first gate it fails, and the five
\* counters plus the number of emitted events make the number of records.
C19_Accounting ==
    Returned => C19_Balance([i \in 1..Len(lastInput) |-> C19_Gate(lastInput[i])])

\* a non-finance record counted as noYear and a record of low volume
C19_Witness ==
    /\ procPc = "returned"
    /\ Len(lastInput) = 2
    /\ fate = <<"nonFinance", "lowVolume">>
    /\ skipReasons["noYear"] = 1
    /\ skipReasons["lowVolume"] = 1
    /\ predictions = <<>>

\* C20: requests are issued one at a time, at offsets that are multiples of
\* 100, start at 0 and never decrease; at most `retries` requests are issued
\* for one offset, and a page is appended at most once per offset.
C20_RequestDiscipline ==
    /\ [](/\ reqOffset % 100 = 0
          /\ \A p \in Pages : reqCount[p] <= retries
          /\ \A p \in Pages : (p > 0 /\ reqCount[p] > 0) => reqCount[0] > 0
          /\ \A i, j \in 1..Len(pushed) : i < j => pushed[i][1] < pushed[j][1])
    /\ [][/\ reqOffset' >= reqOffset
          /\ reqCount' # reqCount =>
                 (pc # "fetch" /\ pc' = "fetch" /\ reqCount'[reqOffset' \div 100] > 0)]_vars

\* two requests for offset 0, a request for offset 100, two pages appended
C20_Witness ==
    /\ retries = 2
    /\ reqCount[0] = 2
    /\ reqCount[1] = 1
    /\ Len(pushed) = 2
    /\ pushed[1][1] = 0
    /\ pushed[2][1] = 100

\* C21: the returned sequence has no silent gaps: the records of the page at
\* offset o come after records of every page at offsets 0, 100, ..., o - 100,
\* and the records are in ascending order of offset.
C21_NoGaps ==
    pc = "returned" =>
        \A k \in 1..Len(result) :
            /\ \A j \in 1..(k - 1) : result[j][1] <= result[k][1]
            /\ \A q \in 0..((result[k][1] \div 100) - 1) :
                   \E j \in 1..(k - 1) : result[j][1] = q * 100

\* every attempt for the page at offset 0 was answered with 429, and the
\* result holds the records of the page at offset 100 only
C21_Gap ==
    /\ pc = "returned"
    /\ failCount[0] = retries
    /\ Len(pushed) = 1
    /\ pushed[1][1] = 100
    /\ Len(result) > 0
    /\ result[1][1] = 100

====
